---- MODULE Spec2Model ----
(***************************************************************************)
(* GridPathfinder (Djikstra_grid_path_finder.py): construction of the      *)
(* pathfinder over a character grid, neighbour enumeration, and the        *)
(* priority-queue search, one action per loop iteration.                   *)
(*                                                                         *)
(* Positions are Python tuples (row, col), 0-indexed, written <<row, col>>.*)
(* Python's None is written <<>>: the code never builds an empty tuple or  *)
(* an empty list, so <<>> stands for None wherever a position or a path    *)
(* is expected.  A grid row is the sequence of its characters.             *)
(***************************************************************************)
EXTENDS Integers, Sequences, FiniteSets, Bags, TLC

\* Largest number of cells (rows * cols) of a grid handed to the constructor.
MaxCells == 6
\* Largest number of cells of the grids the fair (liveness) runs start from.
MaxCellsLive == 4
\* Largest number of find_shortest_path invocations on one pathfinder.
MaxCalls == 2

Markers == {"0", "1", "S", "G"}
None == <<>>

VARIABLES
    arg,        \* the list of rows handed to GridPathfinder(grid)
    grid,       \* self.grid
    rows,       \* self.rows
    cols,       \* self.cols
    start,      \* self.start
    goal,       \* self.goal
    pc,         \* "new" (before __init__), "raised" (__init__ raised), "idle" (between calls),
                \* "loop" (inside find_shortest_path)
    pq,         \* local pq of find_shortest_path: a bag of <<distance, position, path>>
    distances,  \* local distances of find_shortest_path
    explored,   \* local explored of find_shortest_path
    popped,     \* the entries popped so far by the running (or last) invocation, in order
    results,    \* what each invocation of find_shortest_path gave its caller, in order
    pos,        \* argument of the last direct get_neighbors call
    neighbors,  \* list returned by the last direct get_neighbors call
    report      \* what the script's report of a search result (lines 112-132) last printed

vars == <<arg, grid, rows, cols, start, goal, pc, pq, distances, explored,
          popped, results, pos, neighbors, report>>

selfVars == <<grid, rows, cols, start, goal>>
searchVars == <<pq, distances, explored, popped>>
probeVars == <<pos, neighbors>>

----------------------------------------------------------------------------
(* find_position: row-major scan, first match wins, None when absent. *)

RECURSIVE find_position_from(_, _, _, _, _, _)
find_position_from(g, nr, nc, char, i, j) ==
    IF i >= nr THEN None
    ELSE IF j >= nc THEN find_position_from(g, nr, nc, char, i + 1, 0)
    ELSE IF g[i + 1][j + 1] = char THEN <<i, j>>
    ELSE find_position_from(g, nr, nc, char, i, j + 1)

\* Mutant: the scan keeps going and returns the last match.
RECURSIVE find_position_last_from(_, _, _, _, _, _)
find_position_last_from(g, nr, nc, char, i, j) ==
    IF i < 0 THEN None
    ELSE IF j < 0 THEN find_position_last_from(g, nr, nc, char, i - 1, nc - 1)
    ELSE IF g[i + 1][j + 1] = char THEN <<i, j>>
    ELSE find_position_last_from(g, nr, nc, char, i, j - 1)

find_position_last(g, nr, nc, char) ==
    find_position_last_from(g, nr, nc, char, nr - 1, nc - 1)

find_position(g, nr, nc, char) ==
    find_position_from(g, nr, nc, char, 0, 0)

----------------------------------------------------------------------------
(* get_neighbors: N, S, W, E; inside the grid and not '1'. *)

\* Mutant: east is tried before west (N, S, E, W).
DirectionsNSEW == << <<-1, 0>>, <<1, 0>>, <<0, 1>>, <<0, -1>> >>

\* line 28: the four steps, in the order N, S, W, E
Directions == << <<-1, 0>>, <<1, 0>>, <<0, -1>>, <<0, 1>> >>

RECURSIVE neighbors_from(_, _)
neighbors_from(p, k) ==
    IF k > Len(Directions) THEN <<>>
    ELSE LET new_row == p[1] + Directions[k][1]
             new_col == p[2] + Directions[k][2]
         IN  (IF /\ 0 <= new_row /\ new_row < rows
                 /\ 0 <= new_col /\ new_col < cols
                 /\ grid[new_row + 1][new_col + 1] # "1"
              THEN << <<new_row, new_col>> >>
              ELSE <<>>) \o neighbors_from(p, k + 1)

\* Mutant: the blocked-cell test is missing.
RECURSIVE neighbors_unblocked_from(_, _)
neighbors_unblocked_from(p, k) ==
    IF k > Len(Directions) THEN <<>>
    ELSE LET new_row == p[1] + Directions[k][1]
             new_col == p[2] + Directions[k][2]
         IN  (IF /\ 0 <= new_row /\ new_row < rows
                 /\ 0 <= new_col /\ new_col < cols
              THEN << <<new_row, new_col>> >>
              ELSE <<>>) \o neighbors_unblocked_from(p, k + 1)

get_neighbors_unblocked(p) == neighbors_unblocked_from(p, 1)

get_neighbors(p) == neighbors_from(p, 1)

----------------------------------------------------------------------------
(* heapq over tuples (distance, position, path): Python compares tuples and *)
(* lists lexicographically, at the first index where the elements differ.   *)

PosLess(a, b) == a[1] < b[1] \/ (a[1] = b[1] /\ a[2] < b[2])

RECURSIVE PathLess(_, _)
PathLess(a, b) ==
    IF a = <<>> THEN b # <<>>
    ELSE IF b = <<>> THEN FALSE
    ELSE IF Head(a) = Head(b) THEN PathLess(Tail(a), Tail(b))
    ELSE PosLess(Head(a), Head(b))

\* Mutant: the carried path is the secondary key, the position the third.
EntryLess_PathFirst(x, y) ==
    IF x[1] # y[1] THEN x[1] < y[1]
    ELSE IF x[3] # y[3] THEN PathLess(x[3], y[3])
    ELSE IF x[2] # y[2] THEN PosLess(x[2], y[2])
    ELSE FALSE

EntryLess(x, y) ==
    IF x[1] # y[1] THEN x[1] < y[1]
    ELSE IF x[2] # y[2] THEN PosLess(x[2], y[2])
    ELSE PathLess(x[3], y[3])

\* Mutant: the largest entry is popped.
heappop_max(q) ==
    CHOOSE e \in BagToSet(q) : \A f \in BagToSet(q) : ~EntryLess(e, f)

\* heapq.heappop: the smallest entry of the heap.
heappop(q) ==
    CHOOSE e \in BagToSet(q) : \A f \in BagToSet(q) : ~EntryLess(f, e)

heappush(q, e) == q (+) SetToBag({e})

----------------------------------------------------------------------------
(* The for loop over the neighbours of the popped position (lines 62-70). *)

\* Mutant: a neighbour is pushed again when the candidate equals the stored distance.
RECURSIVE relax_le(_, _, _, _, _, _)
relax_le(nbrs, k, current_dist, current_path, q, d) ==
    IF k > Len(nbrs) THEN [pq |-> q, distances |-> d]
    ELSE LET next_pos == nbrs[k]
             new_dist == current_dist + 1
         IN  IF next_pos \notin DOMAIN d \/ new_dist <= d[next_pos]
             THEN relax_le(nbrs, k + 1, current_dist, current_path,
                           heappush(q, <<new_dist, next_pos, Append(current_path, next_pos)>>),
                           (next_pos :> new_dist) @@ d)
             ELSE relax_le(nbrs, k + 1, current_dist, current_path, q, d)

RECURSIVE relax(_, _, _, _, _, _)
relax(nbrs, k, current_dist, current_path, q, d) ==
    IF k > Len(nbrs) THEN [pq |-> q, distances |-> d]
    ELSE LET next_pos == nbrs[k]
             new_dist == current_dist + 1
         IN  IF next_pos \notin DOMAIN d \/ new_dist < d[next_pos]
             THEN relax(nbrs, k + 1, current_dist, current_path,
                        heappush(q, <<new_dist, next_pos, Append(current_path, next_pos)>>),
                        (next_pos :> new_dist) @@ d)
             ELSE relax(nbrs, k + 1, current_dist, current_path, q, d)

----------------------------------------------------------------------------
(* visualize_path (lines 74-91) and the direction encoding of the script   *)
(* (lines 117-130).                                                        *)

\* lines 80-82: the loop over explored; each iteration writes its own cell only,
\* so the set's iteration order does not matter.
mark_explored(vis_grid, path, ex) ==
    [i \in DOMAIN vis_grid |->
        [j \in DOMAIN vis_grid[i] |->
            IF /\ <<i - 1, j - 1>> \in ex
               /\ \A k \in DOMAIN path : path[k] # <<i - 1, j - 1>>
               /\ vis_grid[i][j] \notin {"S", "G"}
            THEN "."
            ELSE vis_grid[i][j]]]

\* Mutant: the S/G test of the path loop is missing.
RECURSIVE mark_path_all(_, _, _)
mark_path_all(vis_grid, path, k) ==
    IF k > Len(path) THEN vis_grid
    ELSE LET r == path[k][1]
             c == path[k][2]
         IN  mark_path_all([vis_grid EXCEPT ![r + 1][c + 1] = "*"], path, k + 1)

\* lines 85-87: the loop over path
RECURSIVE mark_path(_, _, _)
mark_path(vis_grid, path, k) ==
    IF k > Len(path) THEN vis_grid
    ELSE LET r == path[k][1]
             c == path[k][2]
         IN  IF vis_grid[r + 1][c + 1] \notin {"S", "G"}
             THEN mark_path([vis_grid EXCEPT ![r + 1][c + 1] = "*"], path, k + 1)
             ELSE mark_path(vis_grid, path, k + 1)

\* visualize_path(path, explored): the printed rows, or the TypeError raised when
\* 'for r, c in ...' unpacks None or path itself is None.
visualize_path(path, ex) ==
    IF None \in ex \/ path = None \/ (\E k \in DOMAIN path : path[k] = None)
    THEN [kind |-> "TypeError", rows |-> <<>>]
    ELSE [kind |-> "printed", rows |-> mark_path(mark_explored(grid, path, ex), path, 1)]

\* Mutant: north and south are exchanged.
RECURSIVE directions_flipped(_, _)
directions_flipped(path, i) ==
    IF i > Len(path) - 1 THEN <<>>
    ELSE LET curr_r == path[i][1]
             curr_c == path[i][2]
             next_r == path[i + 1][1]
             next_c == path[i + 1][2]
         IN  << IF next_r < curr_r THEN "S"
                ELSE IF next_r > curr_r THEN "N"
                ELSE IF next_c < curr_c THEN "W"
                ELSE "E" >> \o directions_flipped(path, i + 1)

\* lines 118-129: one symbol per i in range(len(path) - 1)
RECURSIVE directions_from(_, _)
directions_from(path, i) ==
    IF i > Len(path) - 1 THEN <<>>
    ELSE LET curr_r == path[i][1]
             curr_c == path[i][2]
             next_r == path[i + 1][1]
             next_c == path[i + 1][2]
         IN  << IF next_r < curr_r THEN "N"
                ELSE IF next_r > curr_r THEN "S"
                ELSE IF next_c < curr_c THEN "W"
                ELSE "E" >> \o directions_from(path, i + 1)

NoReport == [kind |-> "none", length |-> 0, rows |-> <<>>, directions |-> <<>>]

----------------------------------------------------------------------------
\* The lists of equal-length rows of at most MaxCells cells, the empty list included.
Grids ==
    UNION { [1..r -> [1..c -> Markers]] :
            <<r, c>> \in {rc \in (0..MaxCells) \X (0..MaxCells) :
                             rc[1] * rc[2] <= MaxCells /\ (rc[1] = 0 => rc[2] = 0)} }

Init ==
    /\ arg \in Grids
    /\ grid = <<>>
    /\ rows = 0
    /\ cols = 0
    /\ start = None
    /\ goal = None
    /\ pc = "new"
    /\ pq = EmptyBag
    /\ distances = <<>>
    /\ explored = {}
    /\ popped = <<>>
    /\ results = <<>>
    /\ pos = None
    /\ neighbors = <<>>
    /\ report = NoReport

\* GridPathfinder.__init__; self.grid[0] raises IndexError on the empty list.
Construct ==
    /\ pc = "new"
    /\ IF Len(arg) = 0
       THEN /\ grid' = arg
            /\ rows' = 0
            /\ pc' = "raised"
            /\ UNCHANGED <<cols, start, goal>>
       ELSE /\ grid' = arg
            /\ rows' = Len(arg)
            /\ cols' = Len(arg[1])
            /\ start' = find_position(arg, Len(arg), Len(arg[1]), "S")
            /\ goal' = find_position(arg, Len(arg), Len(arg[1]), "G")
            /\ pc' = "idle"
    /\ UNCHANGED <<arg, searchVars, results, probeVars, report>>

\* A direct call of get_neighbors on a position of the grid.
GetNeighborsCall ==
    /\ pc = "idle"
    /\ \E r \in 0..(rows - 1), c \in 0..(cols - 1) :
          /\ pos' = <<r, c>>
          /\ neighbors' = get_neighbors(<<r, c>>)
    /\ UNCHANGED <<arg, selfVars, pc, searchVars, results, report>>

\* Mutant: explored is not created afresh by the invocation.
FindShortestPath_KeepExplored ==
    /\ pc = "idle"
    /\ Len(results) < MaxCalls
    /\ pq' = SetToBag({<<0, start, <<start>>>>})
    /\ distances' = (start :> 0)
    /\ popped' = <<>>
    /\ pc' = "loop"
    /\ UNCHANGED <<arg, selfVars, explored, results, probeVars, report>>

\* find_shortest_path, lines 43-45: the locals of a fresh invocation.
FindShortestPath_Begin ==
    /\ pc = "idle"
    /\ Len(results) < MaxCalls
    /\ pq' = SetToBag({<<0, start, <<start>>>>})
    /\ distances' = (start :> 0)
    /\ explored' = {}
    /\ popped' = <<>>
    /\ pc' = "loop"
    /\ UNCHANGED <<arg, selfVars, results, probeVars, report>>

\* Mutant: the popped position is not recorded.
explored_keep(ex, p) == ex

\* explored.add(current_pos), line 55
explored_add(ex, p) == ex \cup {p}

Returned(path, ex) == [kind |-> "return", path |-> path, explored |-> ex]
Raised(exc) == [kind |-> exc, path |-> None, explored |-> {}]

\* find_shortest_path, lines 47-70: one iteration of the while loop.
LoopIteration ==
    /\ pc = "loop"
    /\ BagToSet(pq) # {}
    /\ LET e == heappop(pq)
           rest == pq (-) SetToBag({e})
           current_dist == e[1]
           current_pos == e[2]
           current_path == e[3]
       IN  /\ popped' = Append(popped, e)
           /\ IF current_pos \in explored
              THEN \* line 52: continue
                   /\ pq' = rest
                   /\ UNCHANGED <<distances, explored, pc, results>>
              ELSE IF current_pos = goal
              THEN \* line 59: return current_path, explored
                   /\ pq' = rest
                   /\ explored' = explored_add(explored, current_pos)
                   /\ results' = Append(results, Returned(current_path, explored'))
                   /\ pc' = "idle"
                   /\ UNCHANGED distances
              ELSE IF current_pos = None
              THEN \* line 25: row, col = None raises TypeError
                   /\ pq' = rest
                   /\ explored' = explored_add(explored, current_pos)
                   /\ results' = Append(results, Raised("TypeError"))
                   /\ pc' = "idle"
                   /\ UNCHANGED distances
              ELSE LET after == relax(get_neighbors(current_pos), 1, current_dist,
                                      current_path, rest, distances)
                   IN  /\ pq' = after.pq
                       /\ distances' = after.distances
                       /\ explored' = explored_add(explored, current_pos)
                       /\ UNCHANGED <<pc, results>>
    /\ UNCHANGED <<arg, selfVars, probeVars, report>>

\* Mutant: the loop does not end when the frontier is empty.
ReturnNone_Spin ==
    /\ pc = "loop"
    /\ BagToSet(pq) = {}
    /\ UNCHANGED vars

\* find_shortest_path, lines 47 and 72: the frontier is empty.
ReturnNone ==
    /\ pc = "loop"
    /\ BagToSet(pq) = {}
    /\ results' = Append(results, Returned(None, explored))
    /\ pc' = "idle"
    /\ UNCHANGED <<arg, selfVars, searchVars, probeVars, report>>

\* The invocations of find_shortest_path that have ended.
Calls == 1..Len(results)

\* Mutant: vis_grid is self.grid itself, not a copy of it.
Report_Aliased ==
    /\ pc = "idle"
    /\ \E i \in Calls :
          /\ results[i].kind = "return"
          /\ results[i].path # None
          /\ LET vis == visualize_path(results[i].path, results[i].explored)
             IN  /\ vis.kind = "printed"
                 /\ grid' = vis.rows
                 /\ report' = [kind |-> "Path found!",
                               length |-> Len(results[i].path) - 1,
                               rows |-> vis.rows,
                               directions |-> directions_from(results[i].path, 1)]
    /\ UNCHANGED <<arg, rows, cols, start, goal, pc, searchVars, results, probeVars>>

\* The script's report of a search result, lines 112-132: "No path found!" for the
\* absent path; otherwise the length, visualize_path and the directions.
Report ==
    /\ pc = "idle"
    /\ \E i \in Calls :
          /\ results[i].kind = "return"
          /\ LET path == results[i].path
                 vis == visualize_path(path, results[i].explored)
             IN  report' =
                     IF path = None
                     THEN [kind |-> "No path found!", length |-> 0,
                           rows |-> <<>>, directions |-> <<>>]
                     ELSE IF vis.kind = "TypeError"
                     THEN [kind |-> "TypeError", length |-> Len(path) - 1,
                           rows |-> <<>>, directions |-> <<>>]
                     ELSE [kind |-> "Path found!", length |-> Len(path) - 1,
                           rows |-> vis.rows, directions |-> directions_from(path, 1)]
    /\ UNCHANGED <<arg, selfVars, pc, searchVars, results, probeVars>>

Next ==
    \/ Construct
    \/ FindShortestPath_Begin
    \/ LoopIteration
    \/ ReturnNone

Spec == Init /\ [][Next]_vars

\* The search runs to completion once invoked: single-threaded and synchronous,
\* nothing suspends the while loop or its exit.
\* The fair runs are explored from the grids of at most MaxCellsLive cells.
InitLive ==
    /\ Init
    /\ Len(arg) > 0 => Len(arg) * Len(arg[1]) <= MaxCellsLive

SpecLive == InitLive /\ [][Next]_vars /\ WF_vars(LoopIteration) /\ WF_vars(ReturnNone)

\* Construction, searches and the script's report of their results.
NextMain ==
    \/ Construct
    \/ FindShortestPath_Begin
    \/ LoopIteration
    \/ ReturnNone
    \/ Report

SpecMain == Init /\ [][NextMain]_vars

\* Construction followed by direct calls of get_neighbors.
NextNeighbors ==
    \/ Construct
    \/ GetNeighborsCall

SpecNeighbors == Init /\ [][NextNeighbors]_vars

----------------------------------------------------------------------------
(* Reference notions the properties are stated with: the grid graph and    *)
(* its breadth-first distance, defined without the search.                 *)

Cells == {<<r, c>> : r \in 0..(rows - 1), c \in 0..(cols - 1)}
Marker(p) == grid[p[1] + 1][p[2] + 1]
Abs(n) == IF n < 0 THEN -n ELSE n
Manhattan(p, q) == Abs(p[1] - q[1]) + Abs(p[2] - q[2])
Adjacent(p, q) == Manhattan(p, q) = 1
Open(p) == p \in Cells /\ Marker(p) # "1"
Elems(seq) == {seq[k] : k \in DOMAIN seq}

\* S together with the non-'1' cells one orthogonal step away from a cell of S.
Grow(S) == S \cup {q \in Cells : Open(q) /\ \E n \in S : Adjacent(n, q)}

RECURSIVE Closure(_)
Closure(S) == LET T == Grow(S) IN IF T = S THEN S ELSE Closure(T)

\* The cells a route of orthogonal steps over non-'1' cells leads to from p.
Reachable(p) == Closure({p})

RECURSIVE StepsTo(_, _, _)
StepsTo(S, q, k) == IF q \in S THEN k ELSE StepsTo(Grow(S), q, k + 1)

\* The least number of steps of such a route from p to q, for q in Reachable(p).
BfsDist(p, q) == StepsTo({p}, q, 0)

\* found is the first cell in row-major order holding char, or None when there is none.
RowMajorBefore(p, q) == p[1] < q[1] \/ (p[1] = q[1] /\ p[2] < q[2])
FirstHolding(char, found) ==
    IF \E p \in Cells : Marker(p) = char
    THEN /\ found \in Cells
         /\ Marker(found) = char
         /\ \A q \in Cells : Marker(q) = char => ~RowMajorBefore(q, found)
    ELSE found = None

\* Rank of the step from p to q in the order N, S, W, E.
DirRank(p, q) ==
    IF q[1] < p[1] THEN 1 ELSE IF q[1] > p[1] THEN 2 ELSE IF q[2] < p[2] THEN 3 ELSE 4

HasStart == pc \notin {"new", "raised"} /\ start # None
HasGoal == pc \notin {"new", "raised"} /\ goal # None
\* An invocation of find_shortest_path has just handed its result to the caller.
Returning == pc = "idle" /\ Len(results) > 0
NoBlocked == \A p \in Cells : Marker(p) # "1"

----------------------------------------------------------------------------
\* C1: on a grid with S and G where G is reachable from S by orthogonal steps
\* over non-'1' cells, every invocation returns a path whose edge count
\* len(path) - 1 is the breadth-first distance from S to G.
C1_ShortestPath ==
    (Returning /\ HasStart /\ HasGoal /\ goal \in Reachable(start)) =>
        LET d == BfsDist(start, goal)
        IN  \A i \in Calls :
                /\ results[i].kind = "return"
                /\ results[i].path # None
                /\ Len(results[i].path) - 1 = d

\* A search has returned on a grid where walls force a detour.
C1_Witness ==
    /\ Len(results) > 0
    /\ HasStart /\ HasGoal /\ goal \in Reachable(start)
    /\ BfsDist(start, goal) > Manhattan(start, goal)

\* C2: any returned path starts at Start, ends at Goal, moves by orthogonal
\* steps, and every position of it is inside the grid and not on a '1' cell.
C2_PathWellFormed ==
    \A i \in Calls :
        (results[i].kind = "return" /\ results[i].path # None) =>
            LET path == results[i].path
            IN  /\ path[1] = start
                /\ path[Len(path)] = goal
                /\ \A k \in 1..(Len(path) - 1) : Adjacent(path[k], path[k + 1])
                /\ \A k \in 1..Len(path) : Open(path[k])

\* C3: with Start present, an unreachable Goal gives the absent path together
\* with exactly the set of cells reachable from Start, and the absent path is
\* given only when Goal is unreachable.
C3_Unreachable ==
    (Returning /\ HasStart) =>
        LET reach == Reachable(start)
        IN  \A i \in Calls :
                /\ results[i].kind = "return"
                /\ goal \notin reach =>
                       /\ results[i].path = None
                       /\ results[i].explored = reach
                /\ results[i].path = None => goal \notin reach

\* A search has returned no path although G is on the grid, after exploring
\* more than the start cell.
C3_Witness ==
    /\ Len(results) > 0
    /\ results[1].path = None
    /\ HasStart /\ HasGoal /\ goal \notin Reachable(start)
    /\ Cardinality(results[1].explored) > 1

\* C4: on a grid without S or without G every invocation reports "no path
\* found" with an empty explored set and raises nothing.
C4_MissingMarker ==
    (pc \notin {"new", "raised"} /\ (start = None \/ goal = None)) =>
        \A i \in Calls :
            /\ results[i].kind = "return"
            /\ results[i].path = None
            /\ results[i].explored = {}

\* C5: construction over a non-empty rectangular grid does not raise, and
\* start and goal are the first cell in row-major order holding S and G,
\* or None when no cell holds the marker.
C5_Construction ==
    /\ pc = "raised" => Len(arg) = 0
    /\ pc \notin {"new", "raised"} =>
           /\ grid = arg /\ rows = Len(arg) /\ cols = Len(arg[1])
           /\ FirstHolding("S", start)
           /\ FirstHolding("G", goal)

\* Construction has run on a grid holding S twice and no G.
C5_Witness ==
    /\ pc = "idle"
    /\ Cardinality({p \in Cells : Marker(p) = "S"}) > 1
    /\ start # None
    /\ goal = None

\* C6: with S and G present and no blocked cell, the edge count of the
\* returned path is the Manhattan distance between Start and Goal.
C6_Manhattan ==
    \A i \in Calls :
        (HasStart /\ HasGoal /\ NoBlocked) =>
            /\ results[i].path # None
            /\ Len(results[i].path) - 1 = Manhattan(start, goal)

\* A search has returned on an open grid with Start and Goal three steps apart.
C6_Witness ==
    /\ HasStart /\ HasGoal /\ NoBlocked
    /\ Len(results) > 0
    /\ Manhattan(start, goal) >= 3

\* C7: the explored set a call returns contains Start, and contains Goal
\* whenever a path is returned.
C7_ExploredEnds ==
    \A i \in Calls :
        results[i].kind = "return" =>
            /\ start \in results[i].explored
            /\ results[i].path # None => goal \in results[i].explored

\* A call has returned a path of several cells.
C7_Witness ==
    /\ HasStart /\ HasGoal
    /\ Len(results) > 0
    /\ results[1].kind = "return"
    /\ Len(results[1].path) > 2

C10_Idempotent ==
    \A i, j \in Calls :
        /\ results[i].kind = results[j].kind
        /\ (results[i].path = None) = (results[j].path = None)
        /\ Len(results[i].path) = Len(results[j].path)
        /\ Cardinality(results[i].explored) = Cardinality(results[j].explored)

\* Two invocations have returned a path after exploring several cells.
C10_Witness ==
    /\ Len(results) >= 2
    /\ results[2].path # None
    /\ Cardinality(results[2].explored) > 2

\* C11: once constructed, no operation changes self.grid, self.start or
\* self.goal, and the report's visualize_path leaves the path and explored
\* set it was given as they were.
C11_Frame ==
    [][pc # "new" =>
          /\ grid' = grid
          /\ start' = start
          /\ goal' = goal
          /\ (pc = "idle" /\ pc' = "idle") => results' = results]_vars

\* visualize_path has printed a rendering that differs from the grid, which
\* is still the constructor's argument.
C11_Witness ==
    /\ report.kind = "Path found!"
    /\ report.rows # grid
    /\ grid = arg
    /\ Len(results) = MaxCalls

\* C12: the rendering has the grid's dimensions; a cell is '*' exactly when
\* it is on the path and not marked S or G, '.' exactly when it is explored,
\* off the path and not marked S or G, and keeps its marker otherwise.  A
\* path of grid positions is always rendered.
C12_Rendering ==
    /\ report.kind = "Path found!" =>
           \E i \in Calls :
               LET path == results[i].path
                   ex == results[i].explored
                   out == report.rows
               IN  /\ results[i].kind = "return"
                   /\ path # None
                   /\ Len(out) = rows
                   /\ \A r \in 1..rows : Len(out[r]) = cols
                   /\ \A p \in Cells :
                          LET onPath == p \in Elems(path)
                              marked == Marker(p) \in {"S", "G"}
                              glyph == out[p[1] + 1][p[2] + 1]
                          IN  /\ glyph = "*" <=> (onPath /\ ~marked)
                              /\ glyph = "." <=> (p \in ex /\ ~onPath /\ ~marked)
                              /\ glyph \notin {"*", "."} => glyph = Marker(p)
    /\ report.kind = "TypeError" => start = None

\* A rendering with a path cell, an explored cell off the path and a wall.
C12_Witness ==
    /\ report.kind = "Path found!"
    /\ \E p, q, w \in Cells :
          /\ report.rows[p[1] + 1][p[2] + 1] = "*"
          /\ report.rows[q[1] + 1][q[2] + 1] = "."
          /\ report.rows[w[1] + 1][w[2] + 1] = "1"

\* C13: the directions printed for a path have one symbol per edge, N for a
\* step to a smaller row, S to a larger row, W to a smaller column and E to
\* a larger column; the grid ["SG"] gives "E".
C13_Directions ==
    /\ report.kind = "Path found!" =>
           \E i \in Calls :
               LET path == results[i].path
                   dirs == report.directions
               IN  /\ path # None
                   /\ Len(dirs) = Len(path) - 1
                   /\ \A k \in 1..(Len(path) - 1) :
                          /\ path[k + 1][1] < path[k][1] => dirs[k] = "N"
                          /\ path[k + 1][1] > path[k][1] => dirs[k] = "S"
                          /\ path[k + 1][2] < path[k][2] => dirs[k] = "W"
                          /\ path[k + 1][2] > path[k][2] => dirs[k] = "E"
    /\ (report.kind # "none" /\ grid = << <<"S", "G">> >>) =>
           report.directions = <<"E">>

\* Directions with a step north and a step west among at least three have
\* been printed.
C13_Witness ==
    /\ report.kind = "Path found!"
    /\ Len(report.directions) >= 3
    /\ "N" \in Elems(report.directions)
    /\ "W" \in Elems(report.directions)

\* A step of the running search that popped an entry: the entry it popped.
Pops == pc = "loop" /\ Len(popped') = Len(popped) + 1
Popped == popped'[Len(popped')]

\* C14 (as stated): each pop removes a frontier entry of minimum accumulated
\* distance and, among the entries of that distance, the one whose carried
\* path is lexicographically smallest.
C14_PopsLeastPath ==
    [][Pops =>
          /\ Popped \in BagToSet(pq)
          /\ \A f \in BagToSet(pq) :
                 /\ Popped[1] <= f[1]
                 /\ f[1] = Popped[1] => ~PathLess(f[3], Popped[3])]_vars

\* C14 (amended): each pop removes a frontier entry of minimum accumulated
\* distance and, among the entries of that distance, the one whose position
\* is smallest in (row, col) order; no two frontier entries have the same
\* distance and position, so the carried paths are never compared.
C14_PopsLeastPosition ==
    [][Pops =>
          /\ Popped \in BagToSet(pq)
          /\ CopiesIn(Popped, pq') = CopiesIn(Popped, pq) - 1
          /\ \A f \in BagToSet(pq) :
                 /\ Popped[1] <= f[1]
                 /\ (f[1] = Popped[1] /\ f # Popped) =>
                        RowMajorBefore(Popped[2], f[2])]_vars

\* The frontier holds two entries of the least distance, and the one with the
\* smaller position carries the lexicographically larger path; the search
\* goes on to pop it.
C14_Witness ==
    /\ Len(popped) > 0
    /\ \E f \in BagToSet(pq) :
          LET e == popped[Len(popped)]
          IN  /\ f[1] = e[1]
              /\ RowMajorBefore(e[2], f[2])
              /\ PathLess(f[3], e[3])

\* C15: on a grid with Start and Goal every invocation of find_shortest_path
\* ends: it pops Goal and returns a path, or empties the frontier and
\* returns no path.
C15_Terminates ==
    (pc = "loop" /\ HasStart /\ HasGoal)
        ~> /\ Returning
           /\ results[Len(results)].kind = "return"
           /\ \/ /\ results[Len(results)].path # None
                 /\ popped[Len(popped)][2] = goal
              \/ /\ results[Len(results)].path = None
                 /\ BagToSet(pq) = {}

\* A search over a grid with S and G has ended after four pops or more.
C15_Witness ==
    /\ Returning /\ HasStart /\ HasGoal
    /\ Len(popped) >= 4

\* The entries a step pushes onto the frontier.
Pushed == {f \in BagToSet(pq') : CopiesIn(f, pq') > CopiesIn(f, pq)}

\* C16: throughout a search the distance map holds Start -> 0; a step of the
\* search only adds keys and never raises a stored value; an entry is pushed
\* only with a candidate strictly below the stored value (absent counting as
\* infinity), which then becomes the stored value, and the map changes in no
\* other way.
C16_Relaxation ==
    [][/\ (pc = "loop" \/ pc' = "loop") =>
              (start \in DOMAIN distances' /\ distances'[start] = 0)
       /\ pc = "loop" =>
              /\ DOMAIN distances \subseteq DOMAIN distances'
              /\ \A p \in DOMAIN distances : distances'[p] <= distances[p]
              /\ \A f \in Pushed :
                     /\ f[2] \notin DOMAIN distances \/ f[1] < distances[f[2]]
                     /\ distances'[f[2]] = f[1]
              /\ \A p \in DOMAIN distances' :
                     (p \notin DOMAIN distances \/ distances'[p] # distances[p]) =>
                         \E f \in Pushed : f[2] = p]_vars

\* The search has discovered four positions, one of them two steps away, and
\* has turned down a neighbour whose stored distance was not larger.
C16_Witness ==
    /\ pc = "loop"
    /\ Cardinality(DOMAIN distances) >= 4
    /\ \E p \in DOMAIN distances : distances[p] >= 2
    /\ Len(popped) >= 3
    /\ Len(popped) + BagCardinality(pq) < 4 * Len(popped)

\* C17: on a grid with Start and Goal, at every step of a search the explored
\* set holds only positions inside the grid that are not '1' cells, and a pop
\* finalizes a position that was not explored before, so that none is
\* finalized twice.
C17_ExploredCells ==
    [][(HasStart /\ HasGoal) =>
          /\ \A p \in explored' : Open(p)
          /\ Pops => /\ Popped[2] \notin explored
                     /\ explored' = explored \cup {Popped[2]}]_vars

\* A search on a grid with S, G and a wall next to an explored cell has
\* finalized four positions.
C17_Witness ==
    /\ HasStart /\ HasGoal
    /\ Cardinality(explored) >= 4
    /\ \E p \in explored : \E w \in Cells : Adjacent(p, w) /\ Marker(w) = "1"

PoppedPositions == {popped[k][2] : k \in DOMAIN popped}

\* C18: in a search no two entries that are or were on the frontier carry the
\* same position, no frontier entry carries an explored position (none is
\* stale), every pop so far added its position to explored (the discard
\* branch was not taken), and heappush was called at most rows * cols times.
C18_PushedOnce ==
    pc \in {"loop", "idle"} =>
        /\ \A i, j \in DOMAIN popped : i # j => popped[i][2] # popped[j][2]
        /\ \A f \in BagToSet(pq) :
               /\ CopiesIn(f, pq) = 1
               /\ f[2] \notin PoppedPositions
               /\ f[2] \notin explored
               /\ \A g \in BagToSet(pq) : g # f => g[2] # f[2]
        /\ explored = PoppedPositions
        /\ Cardinality(explored) = Len(popped)
        /\ pc = "loop" => Len(popped) + BagCardinality(pq) - 1 <= rows * cols

\* A search has turned down a second route to a position already discovered:
\* some explored cell has two explored or pending neighbours one step further.
C18_Witness ==
    /\ pc = "loop"
    /\ Len(popped) >= 3
    /\ \E k \in DOMAIN popped :
          /\ popped[k][1] = 2
          /\ Cardinality({j \in DOMAIN popped :
                 popped[j][1] = 1 /\ Adjacent(popped[j][2], popped[k][2])}) = 2

\* C19: the distances of the entries popped one after the other never
\* decrease, and every popped entry, whose position is added to explored,
\* carries a distance equal to len(path) - 1 and to the breadth-first
\* distance from Start to its position.
C19_PopOrder ==
    \A k \in DOMAIN popped :
        /\ k > 1 => popped[k - 1][1] <= popped[k][1]
        /\ popped[k][2] \in explored
        /\ popped[k][1] = Len(popped[k][3]) - 1
        /\ popped[k][3][Len(popped[k][3])] = popped[k][2]
        /\ popped[k][1] = BfsDist(start, popped[k][2])

\* An entry four steps from Start has been popped on a grid where walls force
\* a detour.
C19_Witness ==
    /\ Len(popped) > 0
    /\ popped[Len(popped)][1] >= 4
    /\ Manhattan(start, popped[Len(popped)][2]) < 4

\* C20: when a path is returned the search stopped at the pop of Goal: Goal
\* is the last position added to explored, and no position of the returned
\* explored set is farther from Start than Goal.
C20_GoalLast ==
    (Returning /\ results[Len(results)].path # None) =>
        LET ex == results[Len(results)].explored
        IN  /\ popped[Len(popped)][2] = goal
            /\ \A k \in 1..(Len(popped) - 1) : popped[k][2] # goal
            /\ ex = explored
            /\ ex = PoppedPositions
            /\ \A p \in ex : BfsDist(start, p) <= BfsDist(start, goal)

\* A path to a Goal two or more steps away has been returned with some cell
\* at Goal's distance explored.
C20_Witness ==
    /\ Returning /\ HasStart /\ HasGoal
    /\ results[Len(results)].path # None
    /\ Len(results[Len(results)].path) >= 3
    /\ \E p \in explored : p # goal /\ BfsDist(start, p) = BfsDist(start, goal)

====
